---- MODULE Spec2Model ----
(***************************************************************************)
(* A model of the SimpliMath interpreter (src/base.py).                    *)
(*                                                                         *)
(* Text is modelled as sequences of one-character strings, so that the     *)
(* prefix, suffix, substring, slice and replace operations the interpreter *)
(* performs on source lines and templates are computed, not assumed.       *)
(* One interpreter instance is modelled: it is constructed, execute is     *)
(* called on it (possibly several times, the instance keeps its fields),   *)
(* and parse_command may be called on it directly between runs.            *)
(***************************************************************************)
EXTENDS Integers, Sequences, FiniteSets, TLC

(***************************************************************************)
(* Bounds of the model.                                                    *)
(***************************************************************************)
\* the number of source lines handed to one instance, over all the calls made
\* on it: the lines of the programs given to execute, and one for each command
\* given to parse_command
MaxLines == 3

(***************************************************************************)
(* Python str operations on sequences of characters.                       *)
(***************************************************************************)
Letters == {"a", "b", "c", "d", "e", "f", "g", "h", "i", "j", "k", "l", "m",
            "n", "o", "p", "q", "r", "s", "t", "u", "v", "w", "x", "y", "z"}

Digits == {"0", "1", "2", "3", "4", "5", "6", "7", "8", "9"}

\* str.startswith
StartsWith(s, p) ==
    /\ Len(s) >= Len(p)
    /\ SubSeq(s, 1, Len(p)) = p

\* str.endswith
EndsWith(s, p) ==
    /\ Len(s) >= Len(p)
    /\ SubSeq(s, Len(s) - Len(p) + 1, Len(s)) = p

\* the occurrences of p in s, as 1-based positions
Occurrences(s, p) ==
    {i \in 1..(Len(s) - Len(p) + 1) : SubSeq(s, i, i + Len(p) - 1) = p}

\* str.index, 0-based; -1 when p does not occur (where str.index raises)
Index(s, p) ==
    IF Occurrences(s, p) = {} THEN -1
    ELSE (CHOOSE i \in Occurrences(s, p) : \A j \in Occurrences(s, p) : i <= j) - 1

\* the `in` operator on strings
Contains(s, p) == Occurrences(s, p) # {}

\* s[lo:hi] with Python's treatment of negative and out-of-range indices
Slice(s, lo, hi) ==
    LET norm(k) == IF k < 0 THEN (IF k + Len(s) < 0 THEN 0 ELSE k + Len(s))
                   ELSE (IF k > Len(s) THEN Len(s) ELSE k)
    IN  SubSeq(s, norm(lo) + 1, norm(hi))

\* str.strip (the only whitespace of the modelled alphabet is the space)
RECURSIVE LStrip(_)
LStrip(s) == IF s # <<>> /\ Head(s) = " " THEN LStrip(Tail(s)) ELSE s

RECURSIVE RStrip(_)
RStrip(s) ==
    IF s # <<>> /\ s[Len(s)] = " " THEN RStrip(SubSeq(s, 1, Len(s) - 1)) ELSE s

Strip(s) == RStrip(LStrip(s))

\* str.replace(old, new, 1) for a non-empty old
ReplaceFirst(s, old, new) ==
    LET i == Index(s, old)
    IN  IF i < 0 THEN s
        ELSE SubSeq(s, 1, i) \o new \o SubSeq(s, i + Len(old) + 1, Len(s))

\* str.split("=", 1) of a string that contains "="
SplitEq(s) ==
    LET i == Index(s, <<"=">>)
    IN  <<SubSeq(s, 1, i), SubSeq(s, i + 2, Len(s))>>

\* str.isidentifier, on the modelled (ASCII) alphabet
is_valid_variable_name(name) ==
    /\ name # <<>>
    /\ name[1] \in Letters \cup {"_"}
    /\ \A i \in 1..Len(name) : name[i] \in Letters \cup Digits \cup {"_"}

(***************************************************************************)
(* Values: the dynamically typed scalars a variable holds.  An int is n,   *)
(* a float is the fraction n/d in lowest terms (d > 0), a str is s.        *)
(* Floats are modelled exactly; the programs of the model only produce     *)
(* floats with a finite decimal expansion.                                 *)
(***************************************************************************)
IntVal(k) == [t |-> "int", n |-> k, d |-> 1, s |-> <<>>]

StrVal(x) == [t |-> "str", n |-> 0, d |-> 1, s |-> x]

Abs(k) == IF k < 0 THEN -k ELSE k

RECURSIVE Gcd(_, _)
Gcd(a, b) == IF b = 0 THEN a ELSE Gcd(b, a % b)

\* the float num/den, den # 0
FloatVal(num, den) ==
    LET sn == IF den < 0 THEN -num ELSE num
        sd == Abs(den)
        g  == Gcd(Abs(sn), sd)
    IN  [t |-> "float", n |-> sn \div g, d |-> sd \div g, s |-> <<>>]

\* isinstance(v, (int, float))
IsNumber(v) == v.t \in {"int", "float"}

DigitChar(k) == <<"0", "1", "2", "3", "4", "5", "6", "7", "8", "9">>[k + 1]

DigitVal(c) == CHOOSE k \in 0..9 : DigitChar(k) = c

RECURSIVE NatStr(_)
NatStr(k) ==
    IF k < 10 THEN <<DigitChar(k)>>
    ELSE NatStr(k \div 10) \o <<DigitChar(k % 10)>>

RECURSIVE FracStr(_, _)
FracStr(r, den) ==
    IF r = 0 THEN <<>>
    ELSE <<DigitChar((10 * r) \div den)>> \o FracStr((10 * r) % den, den)

\* str(v)
PyStr(v) ==
    CASE v.t = "str" -> v.s
      [] v.t = "int" -> IF v.n < 0 THEN <<"-">> \o NatStr(-v.n) ELSE NatStr(v.n)
      [] v.t = "float" ->
            (IF v.n < 0 THEN <<"-">> ELSE <<>>)
            \o NatStr(Abs(v.n) \div v.d) \o <<".">>
            \o (IF Abs(v.n) % v.d = 0 THEN <<"0">> ELSE FracStr(Abs(v.n) % v.d, v.d))

RECURSIVE DigitsVal(_)
DigitsVal(ds) ==
    IF ds = <<>> THEN 0
    ELSE 10 * DigitsVal(SubSeq(ds, 1, Len(ds) - 1)) + DigitVal(ds[Len(ds)])

\* int(text): [ok, n]; ok is FALSE where int raises ValueError
PyInt(text) ==
    LET x    == Strip(text)
        sgn  == x # <<>> /\ Head(x) \in {"+", "-"}
        body == IF sgn THEN Tail(x) ELSE x
        wellformed ==
            /\ body # <<>>
            /\ \A i \in 1..Len(body) : body[i] \in Digits \cup {"_"}
            /\ body[1] # "_" /\ body[Len(body)] # "_"
            /\ ~Contains(body, <<"_", "_">>)
        ds   == SelectSeq(body, LAMBDA c : c # "_")
    IN  IF ~wellformed THEN [ok |-> FALSE, n |-> 0]
        ELSE [ok |-> TRUE,
              n  |-> IF sgn /\ Head(x) = "-" THEN -DigitsVal(ds) ELSE DigitsVal(ds)]

(***************************************************************************)
(* evaluate_expression.  ast.parse is modelled on the expressions over     *)
(* decimal integer literals, names, double-quoted string literals,         *)
(* parentheses and the binary operators + - * /; every other text is a     *)
(* parse error or an unsupported node, and both end in the same            *)
(* SyntaxError.  Evaluation happens while parsing: every failure of        *)
(* evaluate_expression is the one SyntaxError of its except clause, so the *)
(* order of discovery does not show.                                       *)
(***************************************************************************)
Tok(kind, text) == [k |-> kind, s |-> text]

\* the longest prefix of s whose characters are all in set
RECURSIVE Run(_, _)
Run(s, set) ==
    IF s # <<>> /\ Head(s) \in set THEN <<Head(s)>> \o Run(Tail(s), set) ELSE <<>>

\* the tokens of an expression; a "bad" token where Python's tokenizer or
\* grammar rejects the text
RECURSIVE Tokenize(_)
Tokenize(s) ==
    IF s = <<>> THEN <<>>
    ELSE LET c == Head(s) IN
      CASE c = " " -> Tokenize(Tail(s))
        [] c \in Digits ->
              LET ds   == Run(s, Digits)
                  rest == SubSeq(s, Len(ds) + 1, Len(s))
                  glued == rest # <<>> /\ Head(rest) \in Letters \cup {"_", "."}
                  zeros == Len(ds) > 1 /\ Head(ds) = "0" /\ ds # Run(ds, {"0"})
              IN  IF glued \/ zeros THEN <<Tok("bad", ds)>>
                  ELSE <<Tok("num", ds)>> \o Tokenize(rest)
        [] c \in Letters \cup {"_"} ->
              LET w == Run(s, Letters \cup Digits \cup {"_"})
              IN  <<Tok("name", w)>> \o Tokenize(SubSeq(s, Len(w) + 1, Len(s)))
        [] c = "\"" ->
              LET close == Index(Tail(s), <<"\"">>)
              IN  IF close < 0 THEN <<Tok("bad", s)>>
                  ELSE <<Tok("str", SubSeq(s, 2, close + 1))>>
                       \o Tokenize(SubSeq(s, close + 3, Len(s)))
        [] c \in {"+", "-", "*", "/"} -> <<Tok("op", <<c>>)>> \o Tokenize(Tail(s))
        [] c = "(" -> <<Tok("lp", <<c>>)>> \o Tokenize(Tail(s))
        [] c = ")" -> <<Tok("rp", <<c>>)>> \o Tokenize(Tail(s))
        [] OTHER -> <<Tok("bad", <<c>>)>>

\* the Python keywords spelled in the modelled alphabet: no Name node
Keywords == {<<"a", "n", "d">>, <<"a", "s">>, <<"d", "e", "f">>, <<"d", "e", "l">>,
             <<"f", "o", "r">>, <<"i", "f">>, <<"i", "n">>, <<"i", "s">>,
             <<"n", "o", "t">>, <<"o", "r">>, <<"t", "r", "y">>,
             <<"e", "l", "s", "e">>, <<"e", "l", "i", "f">>, <<"f", "r", "o", "m">>,
             <<"p", "a", "s", "s">>, <<"w", "i", "t", "h">>}

Failed == [ok |-> FALSE, v |-> IntVal(0), rest |-> <<>>]

Got(val, ts) == [ok |-> TRUE, v |-> val, rest |-> ts]

RECURSIVE Repeat(_, _)
Repeat(x, k) == IF k <= 0 THEN <<>> ELSE x \o Repeat(x, k - 1)

\* ops[type(node.op)](left, right): operator.add, sub, mul, truediv
BinOp(op, a, b) ==
    IF IsNumber(a) /\ IsNumber(b) THEN
        LET bothInt == a.t = "int" /\ b.t = "int"
            num == CASE op = "+" -> a.n * b.d + b.n * a.d
                     [] op = "-" -> a.n * b.d - b.n * a.d
                     [] op = "*" -> a.n * b.n
                     [] op = "/" -> a.n * b.d
            den == IF op = "/" THEN a.d * b.n ELSE a.d * b.d
        IN  IF op = "/" /\ b.n = 0 THEN Failed              \* ZeroDivisionError
            ELSE IF bothInt /\ op # "/" THEN Got(IntVal(num), <<>>)
            ELSE Got(FloatVal(num, den), <<>>)
    ELSE IF a.t = "str" /\ b.t = "str" /\ op = "+" THEN Got(StrVal(a.s \o b.s), <<>>)
    ELSE IF a.t = "str" /\ b.t = "int" /\ op = "*" THEN Got(StrVal(Repeat(a.s, b.n)), <<>>)
    ELSE IF a.t = "int" /\ b.t = "str" /\ op = "*" THEN Got(StrVal(Repeat(b.s, a.n)), <<>>)
    ELSE Failed                                             \* TypeError

\* adjacent string literals are one literal
RECURSIVE EvalStrs(_, _)
EvalStrs(acc, ts) ==
    IF ts # <<>> /\ Head(ts).k = "str" THEN EvalStrs(acc \o Head(ts).s, Tail(ts))
    ELSE Got(StrVal(acc), ts)

\* _eval over the tree ast.parse builds, by the grammar rule at hand:
\*   "sum"   a chain of + and - over terms, left-associative
\*   "term"  a chain of * and / over atoms, left-associative
\*   "atom"  a Num, Name or Str node, or a parenthesised sum
\*   "sums", "terms"  the rest of a chain whose value so far is acc
RECURSIVE Eval(_, _, _, _)
Eval(rule, vars_, acc, ts) ==
    CASE rule = "atom" ->
            IF ts = <<>> THEN Failed
            ELSE LET h == Head(ts) IN
              CASE h.k = "num" -> Got(IntVal(DigitsVal(h.s)), Tail(ts))
                [] h.k = "name" ->
                      IF h.s \in DOMAIN vars_ /\ h.s \notin Keywords
                      THEN Got(vars_[h.s], Tail(ts))
                      ELSE Failed                           \* Undefined variable
                [] h.k = "str" -> EvalStrs(<<>>, ts)
                [] h.k = "lp" ->
                      LET r == Eval("sum", vars_, acc, Tail(ts))
                      IN  IF r.ok /\ r.rest # <<>> /\ Head(r.rest).k = "rp"
                          THEN Got(r.v, Tail(r.rest)) ELSE Failed
                [] OTHER -> Failed                          \* unsupported node
      [] rule = "term" ->
            LET a == Eval("atom", vars_, acc, ts)
            IN  IF a.ok THEN Eval("terms", vars_, a.v, a.rest) ELSE Failed
      [] rule = "sum" ->
            LET a == Eval("term", vars_, acc, ts)
            IN  IF a.ok THEN Eval("sums", vars_, a.v, a.rest) ELSE Failed
      [] rule \in {"terms", "sums"} ->
            LET opset == IF rule = "terms" THEN {"*", "/"} ELSE {"+", "-"}
            IN  IF ts # <<>> /\ Head(ts).k = "op" /\ Head(ts).s[1] \in opset THEN
                    LET b == Eval(IF rule = "terms" THEN "atom" ELSE "term",
                                  vars_, acc, Tail(ts))
                        r == IF b.ok THEN BinOp(Head(ts).s[1], acc, b.v) ELSE Failed
                    IN  IF r.ok THEN Eval(rule, vars_, r.v, b.rest) ELSE Failed
                ELSE Got(acc, ts)

\* evaluate_expression with a name that has no value evaluating to 0
evaluate_expression_lenient(vars_, expr) ==
    LET toks  == Tokenize(expr)
        names == {toks[i].s : i \in {j \in 1..Len(toks) : toks[j].k = "name"}}
        store == [n \in DOMAIN vars_ \cup names |->
                     IF n \in DOMAIN vars_ THEN vars_[n] ELSE IntVal(0)]
        r     == Eval("sum", store, IntVal(0), toks)
    IN  IF r.ok /\ r.rest = <<>> THEN [ok |-> TRUE, v |-> r.v]
        ELSE [ok |-> FALSE, v |-> IntVal(0)]

\* evaluate_expression(expr) against the store vars_: [ok, v];
\* ok is FALSE where it raises SyntaxError
evaluate_expression(vars_, expr) ==
    LET r == Eval("sum", vars_, IntVal(0), Tokenize(expr))
    IN  IF r.ok /\ r.rest = <<>> THEN [ok |-> TRUE, v |-> r.v]
        ELSE [ok |-> FALSE, v |-> IntVal(0)]

(***************************************************************************)
(* The literal texts the interpreter compares source lines against.        *)
(***************************************************************************)
\* ***
S_comment == <<"*", "*", "*">>

\* =
S_eq == <<"=">>

\* input(
S_input == <<"i", "n", "p", "u", "t", "(">>

\* )
S_close == <<")">>

\* output(
S_output == <<"o", "u", "t", "p", "u", "t", "(">>

\* wait(
S_wait == <<"w", "a", "i", "t", "(">>

\* loop if(
S_loop_if == <<"l", "o", "o", "p", " ", "i", "f", "(">>

\* finish loop
S_finish_loop == <<"f", "i", "n", "i", "s", "h", " ", "l", "o", "o", "p">>

\* not hold
S_not_hold == <<"n", "o", "t", " ", "h", "o", "l", "d">>

\* end
S_end == <<"e", "n", "d">>

\* input("
S_input_q == <<"i", "n", "p", "u", "t", "(", "\"">>

\* ")
S_q_close == <<"\"", ")">>

\* /{
S_open == <<"/", "{">>

\* }/
S_shut == <<"}", "/">>

\* true
S_true == <<"t", "r", "u", "e">>

(***************************************************************************)
(* The source lines programs are made of, and the answers typed at a       *)
(* prompt.                                                                 *)
(***************************************************************************)
\* x = input("p")
LnInput == <<"x", " ", "=", " ", "i", "n", "p", "u", "t", "(", "\"", "p", "\"", ")">>

\* y = input("q")
LnInputY == <<"y", " ", "=", " ", "i", "n", "p", "u", "t", "(", "\"", "q", "\"", ")">>

\* input("q")
LnBareInput == <<"i", "n", "p", "u", "t", "(", "\"", "q", "\"", ")">>

\* output(/{x}/)
LnOutput == <<"o", "u", "t", "p", "u", "t", "(", "/", "{", "x", "}", "/", ")">>

\* output(}/ /{x}/)
LnOutputShut == <<"o", "u", "t", "p", "u", "t", "(", "}", "/", " ", "/", "{", "x", "}", "/", ")">>

\* wait(x)
LnWait == <<"w", "a", "i", "t", "(", "x", ")">>

\* loop if(x)
LnLoop == <<"l", "o", "o", "p", " ", "i", "f", "(", "x", ")">>

\* loop if( x)
LnLoopSp == <<"l", "o", "o", "p", " ", "i", "f", "(", " ", "x", ")">>

\* not hold
LnNotHold == <<"n", "o", "t", " ", "h", "o", "l", "d">>

\* finish loop
LnFinish == <<"f", "i", "n", "i", "s", "h", " ", "l", "o", "o", "p">>

\* end
LnEnd == <<"e", "n", "d">>

\* x = 1
LnAssign == <<"x", " ", "=", " ", "1">>

\* 1x = 1
LnBadName == <<"1", "x", " ", "=", " ", "1">>

\* oops
LnUnknown == <<"o", "o", "p", "s">>

\* *** c
LnComment == <<"*", "*", "*", " ", "c">>

\* -1
AnsMinus == <<"-", "1">>

\* true
AnsTrue == <<"t", "r", "u", "e">>

\* output(/{ x }/)
LnOutputSp == <<"o", "u", "t", "p", "u", "t", "(", "/", "{", " ", "x", " ", "}", "/", ")">>

\* y = x
LnCopy == <<"y", " ", "=", " ", "x">>

\* output(x) = input("p")
LnOutputInput == <<"o", "u", "t", "p", "u", "t", "(", "x", ")", " ", "=", " ", "i", "n", "p", "u", "t", "(", "\"", "p", "\"", ")">>

\* wait(x) = input("p")
LnWaitInput == <<"w", "a", "i", "t", "(", "x", ")", " ", "=", " ", "i", "n", "p", "u", "t", "(", "\"", "p", "\"", ")">>

\* loop if( x) = input("p")
LnLoopInput == <<"l", "o", "o", "p", " ", "i", "f", "(", " ", "x", ")", " ", "=", " ", "i", "n", "p", "u", "t", "(", "\"", "p", "\"", ")">>

\* x = input(1)
LnAssignInput == <<"x", " ", "=", " ", "i", "n", "p", "u", "t", "(", "1", ")">>

Lines == {LnInput, LnInputY, LnBareInput, LnOutput, LnOutputShut, LnWait, LnLoop, LnLoopSp,
          LnNotHold, LnFinish, LnEnd, LnAssign, LnBadName, LnUnknown, LnComment,
          LnOutputSp, LnCopy, LnOutputInput, LnWaitInput, LnLoopInput, LnAssignInput}

Answers == {AnsMinus, AnsTrue}

\* the program texts of k lines handed to execute, as their lines
Programs(k) == [1..k -> Lines]

\* x = z
CmdUndefined == <<"x", " ", "=", " ", "z">>

\* x = 1 / 0
CmdDivZero == <<"x", " ", "=", " ", "1", " ", "/", " ", "0">>

\* x = 1 +
CmdMalformed == <<"x", " ", "=", " ", "1", " ", "+">>

\* x = 1 - "a"
CmdMismatch == <<"x", " ", "=", " ", "1", " ", "-", " ", "\"", "a", "\"">>

\* x = -1
CmdUnsupported == <<"x", " ", "=", " ", "-", "1">>

\* the assignment commands handed to parse_command directly
AssignCommands == {LnAssign, LnBadName, CmdUndefined,
                   CmdDivZero, CmdMalformed, CmdMismatch, CmdUnsupported}

(***************************************************************************)
(* The interpreter's handlers, as operators on the instance's fields       *)
(* st = [variables, outputs, inputs, code_running, hold].  Each returns    *)
(* [st, err, ev]: the fields after the call, the exception it raised (or   *)
(* NoError) and the lines it printed.                                      *)
(***************************************************************************)
NoError == [kind |-> "none", msg |-> "", arg |-> <<>>]

Error(kind, msg, arg) == [kind |-> kind, msg |-> msg, arg |-> arg]

Ev(e, text) == [e |-> e, s |-> text]

Ok(st, ev) == [st |-> st, err |-> NoError, ev |-> ev]

Raise(st, e, ev) == [st |-> st, err |-> e, ev |-> ev]

\* self.variables[name] = val
Bind(vars_, name, val) ==
    [k \in DOMAIN vars_ \cup {name} |-> IF k = name THEN val ELSE vars_[k]]

\* __init__ with the hold flag set
init_holding == [variables |-> <<>>, outputs |-> <<>>, inputs |-> <<>>,
                 code_running |-> TRUE, hold |-> TRUE]

\* SimpliMath.__init__
init == [variables |-> <<>>, outputs |-> <<>>, inputs |-> <<>>,
         code_running |-> TRUE, hold |-> FALSE]

\* SimpliMath.handle_loop
handle_loop(st, command) ==
    LET condition == Strip(Slice(command, 9, -1))
    IN  Ok([st EXCEPT !.hold = /\ condition \in DOMAIN st.variables
                              /\ st.variables[condition] = StrVal(S_true)], <<>>)

\* SimpliMath.finish_loop
finish_loop(st) == Ok([st EXCEPT !.hold = FALSE], <<>>)

\* not_hold setting the flag instead of reversing it
not_hold_sets(st) == Ok([st EXCEPT !.hold = TRUE], <<>>)

\* SimpliMath.not_hold
not_hold(st) == Ok([st EXCEPT !.hold = ~st.hold], <<>>)

\* an entry of self.inputs: (var_name, prompt), var_name None when not named
InputRequest(named, var_name, prompt) ==
    [named |-> named, var |-> var_name, prompt |-> prompt]

\* self.inputs.append with the request put at the front of the list
enqueue_front(queue, request) == <<request>> \o queue

\* self.inputs.append(request)
enqueue(queue, request) == Append(queue, request)

\* queue_input without its test of the variable name
queue_input_any_name(st, command) ==
    IF Contains(command, S_eq) THEN
        LET var_name   == Strip(SplitEq(command)[1])
            input_call == Strip(SplitEq(command)[2])
        IN  IF StartsWith(input_call, S_input_q) /\ EndsWith(input_call, S_q_close)
            THEN Ok([st EXCEPT !.inputs =
                        enqueue(@, InputRequest(TRUE, var_name,
                                                Strip(Slice(input_call, 7, -2))))], <<>>)
            ELSE Raise(st, Error("SyntaxError", "Invalid input command", command), <<>>)
    ELSE IF StartsWith(command, S_input_q) /\ EndsWith(command, S_q_close)
    THEN Ok([st EXCEPT !.inputs =
                enqueue(@, InputRequest(FALSE, <<>>, Strip(Slice(command, 7, -2))))], <<>>)
    ELSE Raise(st, Error("SyntaxError", "Invalid input syntax", command), <<>>)

\* SimpliMath.queue_input
queue_input(st, command) ==
    IF Contains(command, S_eq) THEN
        LET var_name   == Strip(SplitEq(command)[1])
            input_call == Strip(SplitEq(command)[2])
        IN  IF ~is_valid_variable_name(var_name)
            THEN Raise(st, Error("SyntaxError", "Invalid variable name", var_name), <<>>)
            ELSE IF StartsWith(input_call, S_input_q) /\ EndsWith(input_call, S_q_close)
            THEN Ok([st EXCEPT !.inputs =
                        enqueue(@, InputRequest(TRUE, var_name,
                                                Strip(Slice(input_call, 7, -2))))], <<>>)
            ELSE Raise(st, Error("SyntaxError", "Invalid input command", command), <<>>)
    ELSE IF StartsWith(command, S_input_q) /\ EndsWith(command, S_q_close)
    THEN Ok([st EXCEPT !.inputs =
                enqueue(@, InputRequest(FALSE, <<>>, Strip(Slice(command, 7, -2))))], <<>>)
    ELSE Raise(st, Error("SyntaxError", "Invalid input syntax", command), <<>>)

\* assign_variable with the test of code_running made after the name and the
\* expression have been checked
assign_variable_tests_late(st, command) ==
    LET var_name == Strip(SplitEq(command)[1])
        value    == Strip(SplitEq(command)[2])
        r        == evaluate_expression(st.variables, value)
    IN  IF ~is_valid_variable_name(var_name)
        THEN Raise(st, Error("SyntaxError", "Invalid variable name", var_name), <<>>)
        ELSE IF ~r.ok
        THEN Raise(st, Error("SyntaxError", "Invalid value or expression", value), <<>>)
        ELSE IF ~st.code_running
        THEN Raise(st, Error("RuntimeError", "Code has already ended", <<>>), <<>>)
        ELSE Ok([st EXCEPT !.variables = Bind(@, var_name, r.v)], <<>>)

\* assign_variable binding the name before the expression is evaluated
assign_variable_binds_first(st, command) ==
    IF ~st.code_running
    THEN Raise(st, Error("RuntimeError", "Code has already ended", <<>>), <<>>)
    ELSE LET var_name == Strip(SplitEq(command)[1])
             value    == Strip(SplitEq(command)[2])
             r        == evaluate_expression(st.variables, value)
             bound    == [st EXCEPT !.variables = Bind(@, var_name, IntVal(0))]
         IN  IF ~is_valid_variable_name(var_name)
             THEN Raise(st, Error("SyntaxError", "Invalid variable name", var_name), <<>>)
             ELSE IF r.ok
             THEN Ok([st EXCEPT !.variables = Bind(@, var_name, r.v)], <<>>)
             ELSE Raise(bound, Error("SyntaxError", "Invalid value or expression", value), <<>>)

\* SimpliMath.assign_variable
assign_variable(st, command) ==
    IF ~st.code_running
    THEN Raise(st, Error("RuntimeError", "Code has already ended", <<>>), <<>>)
    ELSE LET var_name == Strip(SplitEq(command)[1])
             value    == Strip(SplitEq(command)[2])
             r        == evaluate_expression(st.variables, value)
         IN  IF ~is_valid_variable_name(var_name)
             THEN Raise(st, Error("SyntaxError", "Invalid variable name", var_name), <<>>)
             ELSE IF r.ok
             THEN Ok([st EXCEPT !.variables = Bind(@, var_name, r.v)], <<>>)
             ELSE Raise(st, Error("SyntaxError", "Invalid value or expression", value), <<>>)

\* SimpliMath.end
end(st) == Ok([st EXCEPT !.code_running = FALSE], <<Ev("banner", S_end)>>)

\* parse_command with the tests for output, wait and loop lines made before
\* the test for an input request
parse_command_input_late(st, command) ==
    IF command = <<>> \/ StartsWith(command, S_comment) THEN Ok(st, <<>>)
    ELSE IF StartsWith(command, S_output) /\ EndsWith(command, S_close)
    THEN Ok([st EXCEPT !.outputs = Append(@, command)], <<>>)
    ELSE IF StartsWith(command, S_wait) /\ EndsWith(command, S_close)
    THEN Ok([st EXCEPT !.outputs = Append(@, command)], <<>>)
    ELSE IF StartsWith(command, S_loop_if) /\ EndsWith(command, S_close)
    THEN handle_loop(st, command)
    ELSE IF Contains(command, S_eq) /\ Contains(command, S_input)
            /\ EndsWith(command, S_close)
    THEN queue_input(st, command)
    ELSE IF command = S_finish_loop THEN finish_loop(st)
    ELSE IF StartsWith(command, S_not_hold) THEN not_hold(st)
    ELSE IF command = S_end THEN end(st)
    ELSE IF Contains(command, S_eq) THEN assign_variable(st, command)
    ELSE Raise(st, Error("SyntaxError", "Unknown command", command), <<>>)

\* SimpliMath.parse_command
parse_command(st, command) ==
    IF command = <<>> \/ StartsWith(command, S_comment) THEN Ok(st, <<>>)
    ELSE IF Contains(command, S_eq) /\ Contains(command, S_input)
            /\ EndsWith(command, S_close)
    THEN queue_input(st, command)
    ELSE IF StartsWith(command, S_output) /\ EndsWith(command, S_close)
    THEN Ok([st EXCEPT !.outputs = Append(@, command)], <<>>)
    ELSE IF StartsWith(command, S_wait) /\ EndsWith(command, S_close)
    THEN Ok([st EXCEPT !.outputs = Append(@, command)], <<>>)
    ELSE IF StartsWith(command, S_loop_if) /\ EndsWith(command, S_close)
    THEN handle_loop(st, command)
    ELSE IF command = S_finish_loop THEN finish_loop(st)
    ELSE IF StartsWith(command, S_not_hold) THEN not_hold(st)
    ELSE IF command = S_end THEN end(st)
    ELSE IF Contains(command, S_eq) THEN assign_variable(st, command)
    ELSE Raise(st, Error("SyntaxError", "Unknown command", command), <<>>)

\* the value resolve_inputs makes of the line read: an int if int() takes
\* it, the text itself otherwise
Read(answer) == IF PyInt(answer).ok THEN IntVal(PyInt(answer).n) ELSE StrVal(answer)

\* one pass of the loop of SimpliMath.resolve_inputs, the line read being answer
resolve_input(st, request, answer) ==
    LET value == Read(answer)
    IN  Ok(IF request.named /\ request.var # <<>>
           THEN [st EXCEPT !.variables = Bind(@, request.var, value)]
           ELSE st,
           <<Ev("prompt", request.prompt), Ev("read", answer)>>)

\* handle_wait without the test of the duration's type and with the sleep's
\* error dropped
handle_wait_lenient(st, value) ==
    LET duration == evaluate_expression(st.variables, value)
    IN  IF ~duration.ok
        THEN Raise(st, Error("SyntaxError", "Error in wait command", value), <<>>)
        ELSE Ok(st, <<Ev("waiting", PyStr(duration.v)), Ev("sleep", PyStr(duration.v))>>)

\* SimpliMath.handle_wait; time.sleep raises ValueError for a negative length
handle_wait(st, value) ==
    LET duration == evaluate_expression(st.variables, value)
    IN  IF ~duration.ok \/ ~IsNumber(duration.v)
        THEN Raise(st, Error("SyntaxError", "Error in wait command", value), <<>>)
        ELSE IF duration.v.n < 0
        THEN Raise(st, Error("SyntaxError", "Error in wait command", value),
                   <<Ev("waiting", PyStr(duration.v))>>)
        ELSE Ok(st, <<Ev("waiting", PyStr(duration.v)), Ev("sleep", PyStr(duration.v))>>)

\* the loop condition of SimpliMath.format_string
format_more(template) == Contains(template, S_open) /\ Contains(template, S_shut)

\* one pass of the loop of SimpliMath.format_string: [template, err]
format_step(st, template) ==
    LET start    == Index(template, S_open) + 2
        end_     == Index(template, S_shut)
        var_name == Strip(Slice(template, start, end_))
    IN  IF var_name \in DOMAIN st.variables
        THEN [template |-> ReplaceFirst(template, S_open \o var_name \o S_shut,
                                        PyStr(st.variables[var_name])),
              err |-> NoError]
        ELSE [template |-> template,
              err |-> Error("SyntaxError", "Undefined variable in string", var_name)]

\* code.strip().split("\n"), the text given as its lines: the blank lines at
\* both ends go (every line is stripped again when it is dispatched)
RECURSIVE DropBlank(_)
DropBlank(ls) == IF ls # <<>> /\ Strip(Head(ls)) = <<>> THEN DropBlank(Tail(ls)) ELSE ls

Reverse(ls) == [i \in 1..Len(ls) |-> ls[Len(ls) + 1 - i]]

SplitLines(code) ==
    LET kept == Reverse(DropBlank(Reverse(DropBlank(code))))
    IN  IF kept = <<>> THEN << <<>> >> ELSE kept

\* execute with handle_outputs called before resolve_inputs
execute_outputs_first(phase) ==
    CASE phase = "parse"   -> "outputs"
      [] phase = "outputs" -> "resolve"
      [] phase = "resolve" -> "returned"

\* which step of execute follows which: the parse loop, resolve_inputs,
\* handle_outputs, return
execute_then(phase) ==
    CASE phase = "parse"   -> "resolve"
      [] phase = "resolve" -> "outputs"
      [] phase = "outputs" -> "returned"

\* the parse loop of execute without its test of code_running
loop_never_breaks(st) == FALSE

\* the parse loop of execute left while the hold flag is set, too
loop_breaks_on_hold(st) == ~st.code_running \/ st.hold

\* the test that leaves the parse loop of execute
loop_breaks(st) == ~st.code_running

\* a command parse_command hands to assign_variable
IsAssignment(command) ==
    /\ command # <<>> /\ ~StartsWith(command, S_comment)
    /\ ~(Contains(command, S_eq) /\ Contains(command, S_input) /\ EndsWith(command, S_close))
    /\ ~(StartsWith(command, S_output) /\ EndsWith(command, S_close))
    /\ ~(StartsWith(command, S_wait) /\ EndsWith(command, S_close))
    /\ ~(StartsWith(command, S_loop_if) /\ EndsWith(command, S_close))
    /\ command # S_finish_loop /\ ~StartsWith(command, S_not_hold) /\ command # S_end
    /\ Contains(command, S_eq)

\* the name the command makes assign_variable bind, if it binds one
AssignedBy(st, command) ==
    IF IsAssignment(command) /\ parse_command(st, command).err = NoError
    THEN {Strip(SplitEq(command)[1])}
    ELSE {}

(***************************************************************************)
(* The state: the fields of the one SimpliMath instance, and the position  *)
(* of the call in progress on it.                                          *)
(***************************************************************************)
VARIABLES
    variables,      \* self.variables
    outputs,        \* self.outputs
    inputs,         \* self.inputs
    code_running,   \* self.code_running
    hold,           \* self.hold
    pc,             \* "idle", or where the call in progress stands:
                    \* "parse", "resolve", "outputs", "format", "returned", "raised"
    op,             \* the call in progress: "execute", "parse_command", or "none"
    lines,          \* execute: the lines of the program
    li,             \* execute: the line the parse loop is at
    ii,             \* resolve_inputs: the entry of self.inputs the loop is at
    oi,             \* handle_outputs: the entry of self.outputs the loop is at
    template,       \* format_string: its local template
    err,            \* the exception the call in progress raised
    at,             \* where the call in progress stood when it raised
    io,             \* what the call in progress has printed and done, in order
    entry,          \* the instance's fields when the call in progress began
    asked,          \* asked[i]: how often self.inputs[i] has been prompted
    calls,          \* the calls made on the instance so far
    handed,         \* the source lines handed to the instance so far
    passes,         \* format_string: the passes its loop has made on the
                    \* template, counted modulo 2
    assigned        \* the names assign_variable has bound on the instance

fields == <<variables, outputs, inputs, code_running, hold>>

locals == <<lines, li, ii, oi, template>>

vars == <<variables, outputs, inputs, code_running, hold,
          pc, op, lines, li, ii, oi, template, err, at, io, entry, asked, calls, handed, passes, assigned>>

\* the instance's fields, as the handlers take them
Self == [variables |-> variables, outputs |-> outputs, inputs |-> inputs,
         code_running |-> code_running, hold |-> hold]

\* the fields become st
Becomes(st) ==
    /\ variables' = st.variables
    /\ outputs' = st.outputs
    /\ inputs' = st.inputs
    /\ code_running' = st.code_running
    /\ hold' = st.hold

\* no call in progress
Idle ==
    /\ pc' = "idle"
    /\ op' = "none"
    /\ lines' = <<>>
    /\ li' = 1
    /\ ii' = 1
    /\ oi' = 1
    /\ template' = <<>>
    /\ err' = NoError
    /\ at' = "none"
    /\ io' = <<>>
    /\ entry' = init
    /\ passes' = 0

Init ==
    /\ variables = init.variables
    /\ outputs = init.outputs
    /\ inputs = init.inputs
    /\ code_running = init.code_running
    /\ hold = init.hold
    /\ pc = "idle"
    /\ op = "none"
    /\ lines = <<>>
    /\ li = 1
    /\ ii = 1
    /\ oi = 1
    /\ template = <<>>
    /\ err = NoError
    /\ at = "none"
    /\ io = <<>>
    /\ entry = init
    /\ asked = <<>>
    /\ calls = 0
    /\ handed = 0
    /\ passes = 0
    /\ assigned = {}

\* sm = SimpliMath(): a new instance replaces the used one
Construct ==
    /\ pc = "idle"
    /\ calls > 0
    /\ Becomes(init)
    /\ Idle
    /\ asked' = <<>>
    /\ calls' = 0
    /\ handed' = 0
    /\ assigned' = {}

\* sm.execute(code) is called
Execute ==
    /\ pc = "idle"
    /\ \E k \in 1..(MaxLines - handed) : \E code \in Programs(k) :
          /\ lines' = SplitLines(code)
          /\ handed' = handed + k
    /\ pc' = "parse"
    /\ op' = "execute"
    /\ calls' = calls + 1
    /\ entry' = Self
    /\ UNCHANGED <<fields, li, ii, oi, template, err, at, io, asked, passes, assigned>>

\* the parse loop going on to the next line when a line raises
ParseLine_goes_on ==
    /\ pc = "parse"
    /\ li <= Len(lines)
    /\ ~loop_breaks(Self)
    /\ LET r == parse_command(Self, Strip(lines[li]))
       IN  /\ Becomes(r.st)
           /\ io' = io \o r.ev
    /\ li' = li + 1
    /\ assigned' = assigned \cup AssignedBy(Self, Strip(lines[li]))
    /\ UNCHANGED <<pc, op, lines, ii, oi, template, err, at, entry, asked, calls, handed, passes>>

\* execute: the parse loop dispatches the line it is at
ParseLine ==
    /\ pc = "parse"
    /\ li <= Len(lines)
    /\ ~loop_breaks(Self)
    /\ LET r == parse_command(Self, Strip(lines[li]))
       IN  /\ Becomes(r.st)
           /\ io' = io \o r.ev
           /\ err' = r.err
           /\ IF r.err = NoError
              THEN pc' = "parse" /\ li' = li + 1 /\ at' = at
              ELSE pc' = "raised" /\ li' = li /\ at' = "parse"
    /\ assigned' = assigned \cup AssignedBy(Self, Strip(lines[li]))
    /\ UNCHANGED <<op, lines, ii, oi, template, entry, asked, calls, handed, passes>>

\* execute: the parse loop ends, at the last line or because the code no
\* longer runs; resolve_inputs is called
ParseEnd ==
    /\ pc = "parse"
    /\ li > Len(lines) \/ loop_breaks(Self)
    /\ pc' = execute_then("parse")
    /\ UNCHANGED <<fields, op, lines, li, ii, oi, template, err, at, io, entry, asked, calls, handed, passes, assigned>>

\* resolve_inputs: one queued request is prompted, read and stored
ResolveInput ==
    /\ pc = "resolve"
    /\ ii <= Len(inputs)
    /\ \E answer \in Answers :
          LET r == resolve_input(Self, inputs[ii], answer)
          IN  /\ Becomes(r.st)
              /\ io' = io \o r.ev
    /\ ii' = ii + 1
    /\ asked' = [i \in 1..Len(inputs) |->
                    (IF i <= Len(asked) THEN asked[i] ELSE 0) + (IF i = ii THEN 1 ELSE 0)]
    /\ UNCHANGED <<pc, op, lines, li, oi, template, err, at, entry, calls, handed, passes, assigned>>

\* resolve_inputs returns
ResolveEnd ==
    /\ pc = "resolve"
    /\ ii > Len(inputs)
    /\ pc' = execute_then("resolve")
    /\ UNCHANGED <<fields, op, lines, li, ii, oi, template, err, at, io, entry, asked, calls, handed, passes, assigned>>

\* handle_outputs: the loop takes an output entry and calls format_string
OutputEntry ==
    /\ pc = "outputs"
    /\ oi <= Len(outputs)
    /\ StartsWith(outputs[oi], S_output) /\ EndsWith(outputs[oi], S_close)
    /\ template' = Strip(Slice(outputs[oi], 7, -1))
    /\ pc' = "format"
    /\ passes' = 0
    /\ UNCHANGED <<fields, op, lines, li, ii, oi, err, at, io, entry, asked, calls, handed, assigned>>

\* format_string: one pass of its loop, or its return and the print
Format ==
    /\ pc = "format"
    /\ IF format_more(template)
       THEN LET r == format_step(Self, template)
            IN  /\ template' = r.template
                /\ err' = r.err
                /\ pc' = IF r.err = NoError THEN "format" ELSE "raised"
                /\ at' = IF r.err = NoError THEN at ELSE "format"
                /\ passes' = (passes + 1) % 2
                /\ UNCHANGED <<oi, io>>
       ELSE /\ io' = Append(io, Ev("print", template))
            /\ oi' = oi + 1
            /\ pc' = "outputs"
            /\ UNCHANGED <<template, err, at, passes>>
    /\ UNCHANGED <<fields, op, lines, li, ii, entry, asked, calls, handed, assigned>>

\* handle_outputs: the loop takes an entry that is no output entry; it calls
\* handle_wait for a wait entry, and any other entry is an error
OtherEntry ==
    /\ pc = "outputs"
    /\ oi <= Len(outputs)
    /\ ~(StartsWith(outputs[oi], S_output) /\ EndsWith(outputs[oi], S_close))
    /\ LET r == IF StartsWith(outputs[oi], S_wait) /\ EndsWith(outputs[oi], S_close)
                THEN handle_wait(Self, Strip(Slice(outputs[oi], 5, -1)))
                ELSE Raise(Self, Error("SyntaxError",
                               "Unknown or unsupported command during execution",
                               outputs[oi]), <<>>)
       IN  /\ io' = io \o r.ev
           /\ err' = r.err
           /\ IF r.err = NoError
              THEN pc' = "outputs" /\ oi' = oi + 1 /\ at' = at
              ELSE pc' = "raised" /\ oi' = oi /\ at' = "outputs"
    /\ UNCHANGED <<fields, op, lines, li, ii, template, entry, asked, calls, handed, passes, assigned>>

\* handle_outputs returns, and execute with it
OutputsEnd ==
    /\ pc = "outputs"
    /\ oi > Len(outputs)
    /\ pc' = execute_then("outputs")
    /\ UNCHANGED <<fields, op, lines, li, ii, oi, template, err, at, io, entry, asked, calls, handed, passes, assigned>>

\* sm.parse_command(command) is called on the instance directly, with an
\* assignment command
Dispatch ==
    /\ pc = "idle"
    /\ handed < MaxLines
    /\ \E command \in AssignCommands :
          LET r == parse_command(Self, command)
          IN  /\ Becomes(r.st)
              /\ err' = r.err
              /\ pc' = IF r.err = NoError THEN "returned" ELSE "raised"
              /\ at' = IF r.err = NoError THEN at ELSE "dispatch"
              /\ lines' = <<command>>
              /\ assigned' = assigned \cup AssignedBy(Self, command)
    /\ op' = "parse_command"
    /\ calls' = calls + 1
    /\ handed' = handed + 1
    /\ entry' = Self
    /\ UNCHANGED <<li, ii, oi, template, io, asked, passes>>

\* the call in progress is over: it returned, or its exception reached the caller
Return ==
    /\ pc \in {"returned", "raised"}
    /\ Idle
    /\ UNCHANGED <<fields, asked, calls, handed, assigned>>

\* the steps of an instance on which only execute is called
ExecuteStep ==
    \/ Construct
    \/ Execute
    \/ ParseLine
    \/ ParseEnd
    \/ ResolveInput
    \/ ResolveEnd
    \/ OutputEntry
    \/ Format
    \/ OtherEntry
    \/ OutputsEnd
    \/ Return

Next ==
    \/ ExecuteStep
    \/ Dispatch

\* an instance used through execute and parse_command
Spec == Init /\ [][Next]_vars

\* an instance used through execute alone
SpecExecute == Init /\ [][ExecuteStep]_vars

\* the interpreter goes on running: the loop of format_string makes its next
\* pass, or returns, whenever it can
SpecRunning == Spec /\ WF_vars(Format)

(***************************************************************************)
(* What the claims speak of.                                               *)
(***************************************************************************)
\* the events of kind e in the log, in order
Events(log, e) == SelectSeq(log, LAMBDA x : x.e = e)

\* the executions of queued output and wait entries the log shows
Executed(log) == SelectSeq(log, LAMBDA x : x.e \in {"print", "waiting", "sleep"})

\* the output phase has begun
InOutputs == pc \in {"outputs", "format"} \/ at \in {"outputs", "format"} \/ oi > 1

\* C1: in every run of execute, whatever the order of the input, output and
\* wait lines in the source, no queued output or wait entry is executed (and
\* nothing of it printed) before every queued input request has been
\* prompted, read and, if it names a variable, stored.
C1_InputsBeforeOutputs ==
    op = "execute" =>
        /\ InOutputs => ii = Len(inputs) + 1
        /\ \A k \in 1..Len(io) :
              io[k].e \in {"print", "waiting", "sleep"} =>
                  /\ Len(Events(SubSeq(io, 1, k - 1), "prompt")) = Len(inputs)
                  /\ Len(Events(SubSeq(io, 1, k - 1), "read")) = Len(inputs)
        /\ InOutputs =>
              \A i \in 1..Len(inputs) :
                  (inputs[i].named /\ \A j \in (i + 1)..Len(inputs) :
                                          inputs[j].var # inputs[i].var)
                  => /\ inputs[i].var \in DOMAIN variables
                     /\ variables[inputs[i].var] = Read(Events(io, "read")[i].s)

\* C1's case: the output line comes first in the source, the input line
\* second, and the output has been printed
C1_Witness ==
    /\ op = "execute"
    /\ lines = <<LnOutput, LnInput>>
    /\ Executed(io) # <<>>

\* a line of the program that is `end`
IsEnd(line) == Strip(line) = S_end

HasEnd(ls) == \E k \in 1..Len(ls) : IsEnd(ls[k])

\* the place of the first `end` of a program that has one
EndAt(ls) == CHOOSE k \in 1..Len(ls) : IsEnd(ls[k]) /\ \A j \in 1..(k - 1) : ~IsEnd(ls[j])

\* the program cut just after its first `end`
Truncated(ls) == IF HasEnd(ls) THEN SubSeq(ls, 1, EndAt(ls)) ELSE ls

\* the fields after the lines ls are dispatched one after the other from st,
\* up to the first that raises
RECURSIVE Dispatched(_, _)
Dispatched(st, ls) ==
    IF ls = <<>> THEN st
    ELSE LET r == parse_command(st, Strip(Head(ls)))
         IN  IF r.err = NoError THEN Dispatched(r.st, Tail(ls)) ELSE r.st

\* C2: once the line `end` has been dispatched, no later line of the program
\* is parsed or has an effect: the parse loop stands just after `end`, the
\* fields after the parse pass are those the program cut after `end` leaves,
\* and the skipped lines raise nothing, malformed or not.
C2_NothingAfterEnd ==
    (op = "execute" /\ entry.code_running /\ HasEnd(lines) /\ li > EndAt(lines)) =>
        /\ li = EndAt(lines) + 1
        /\ at # "parse"
        /\ (pc = "parse" \/ (pc = "resolve" /\ ii = 1)) =>
              Self = Dispatched(entry, Truncated(lines))

\* C2's case: a malformed line follows `end`, and the parse pass is over
C2_Witness ==
    /\ op = "execute"
    /\ lines = <<LnEnd, LnUnknown>>
    /\ pc = "resolve"

\* a line the parser takes for an input request
IsRequestLine(line) ==
    /\ ~StartsWith(line, S_comment)
    /\ Contains(line, S_eq) /\ Contains(line, S_input) /\ EndsWith(line, S_close)

\* the request the line <name> = input("<prompt>") asks for
RequestOf(line) ==
    LET eq   == Index(line, S_eq)
        call == Strip(SubSeq(line, eq + 2, Len(line)))
    IN  InputRequest(TRUE, Strip(SubSeq(line, 1, eq)),
                     Strip(SubSeq(call, Len(S_input_q) + 1, Len(call) - Len(S_q_close))))

\* the requests of the input-request lines of a program, in source order
SourceRequests(ls) ==
    LET stripped == [k \in 1..Len(Truncated(ls)) |-> Strip(Truncated(ls)[k])]
        asking   == SelectSeq(stripped, IsRequestLine)
    IN  [k \in 1..Len(asking) |-> RequestOf(asking[k])]

\* C3 (as amended): input requests are created only during the parse pass,
\* and within one execute call each request in the queue is resolved exactly
\* once, in the order in which it was queued: the queue after the parse pass
\* is the queue at the call's start followed by the requests of the
\* program's input-request lines in source order, the prompts shown are
\* those of the queue from its head, one each, and all of them are shown
\* before the call goes on.  (The queue is never cleared, so a later call on
\* the same instance prompts the earlier calls' requests again.)
C3_EachOncePerCall ==
    op = "execute" =>
        /\ (pc # "parse" /\ at # "parse") =>
              inputs = entry.inputs
                       \o (IF entry.code_running THEN SourceRequests(lines) ELSE <<>>)
        /\ Events(io, "prompt") = [k \in 1..(ii - 1) |-> Ev("prompt", inputs[k].prompt)]
        /\ (InOutputs \/ pc = "returned") => ii = Len(inputs) + 1

\* C3's case: two input-request lines, both resolved
C3_Witness ==
    /\ op = "execute"
    /\ lines = <<LnInputY, LnInput>>
    /\ pc = "returned"
    /\ entry.inputs # <<>>

\* C3 as stated: what C3_EachOncePerCall says and, over successive execute
\* calls on the same instance too, no request is prompted a second time.
C3_Original ==
    /\ C3_EachOncePerCall
    /\ \A i \in 1..Len(asked) : asked[i] <= 1

\* a line the parser takes for a loop start
IsLoopLine(line) ==
    /\ ~IsRequestLine(line)
    /\ StartsWith(line, S_loop_if) /\ EndsWith(line, S_close)

\* the trimmed text between the opening and the closing parenthesis
Condition(line) == Strip(SubSeq(line, Len(S_loop_if) + 1, Len(line) - 1))

\* the line the parse loop has just dispatched
Dispatching == op = "execute" /\ pc = "parse" /\ li > 1

Last(ls) == Strip(ls[li - 1])

IsBareInput(line) ==
    /\ StartsWith(line, S_input_q) /\ EndsWith(line, S_q_close)
    /\ ~Contains(SubSeq(line, 1, Len(S_input_q)), S_eq)
    /\ Len(line) >= Len(S_input_q) + Len(S_q_close)

\* C5: a line that is the bare form input("<prompt>") is accepted by the
\* parser: dispatching it raises nothing and puts at the end of the queue a
\* request with no variable name and that prompt.
C5_BareInputAccepted ==
    /\ (op = "execute" /\ at = "parse") => ~IsBareInput(Strip(lines[li]))
    /\ (Dispatching /\ IsBareInput(Last(lines))) =>
          /\ inputs # <<>>
          /\ inputs[Len(inputs)] =
                InputRequest(FALSE, <<>>,
                    Strip(SubSeq(Last(lines), Len(S_input_q) + 1,
                                 Len(Last(lines)) - Len(S_q_close))))

\* C6: an assignment command dispatched while code_running is false raises
\* RuntimeError, whatever its left-hand name and its expression are, and
\* leaves the fields as they were.
C6_AssignAfterEnd ==
    (op = "parse_command" /\ ~entry.code_running) =>
        /\ pc = "raised"
        /\ err.kind = "RuntimeError"
        /\ Self = entry

\* C6's case: the code has ended and an assignment to an invalid name is
\* dispatched
C6_Witness ==
    /\ op = "parse_command"
    /\ ~entry.code_running
    /\ lines = <<LnBadName>>
    /\ err.kind = "RuntimeError"

\* the state a new instance has
Fresh(st) ==
    /\ DOMAIN st.variables = {}
    /\ st.inputs = <<>>
    /\ st.outputs = <<>>
    /\ st.code_running
    /\ ~st.hold

\* C7 (as amended): an execute call that is the first call on a newly
\* constructed instance starts with an empty variable store, empty input and
\* output queues, running = true and hold = false.  (execute resets nothing:
\* a later call on the same instance starts from what the earlier ones left.)
C7_FreshOnNewInstance == (op = "execute" /\ calls = 1) => Fresh(entry)

\* C7's case: execute has just been called on a new instance
C7_Witness ==
    /\ op = "execute"
    /\ calls = 1
    /\ pc = "parse"
    /\ li = 1
    /\ Fresh(Self)

\* C7 as stated: every execute call, a second one on the same instance
\* included, starts from fresh state.
C7_Original == op = "execute" => Fresh(entry)

\* an entry of the output queue that handle_outputs takes for an output
IsOutputEntry(command) == StartsWith(command, S_output) /\ EndsWith(command, S_close)

\* an entry of the output queue that handle_outputs takes for a wait
IsWaitEntry(command) ==
    /\ ~IsOutputEntry(command)
    /\ StartsWith(command, S_wait) /\ EndsWith(command, S_close)

\* the text between the parentheses of an entry output(...) or wait(...)
Inner(command) ==
    Strip(SubSeq(command, Index(command, <<"(">>) + 2, Len(command) - 1))

\* the placeholder of a variable
Placeholder(name) == S_open \o name \o S_shut

\* the variable names the programs use
Names == {<<"x">>, <<"y">>}

\* the names with a placeholder in the entry's template and no value now
Undefined(command) ==
    {name \in Names : /\ Contains(Inner(command), Placeholder(name))
                      /\ name \notin DOMAIN variables}

\* one event for every queue entry handle_outputs has completed
Completed(log) == SelectSeq(log, LAMBDA x : x.e \in {"print", "sleep"})

\* C8: an output entry whose template holds a placeholder of a variable that
\* is not in the store at output time is not printed: it fails with a
\* SyntaxError naming that variable, after every queued input request has
\* been resolved, the entries queued before it having been executed in queue
\* order and none after it.
C8_UndefinedPlaceholder ==
    op = "execute" =>
        /\ \A k \in 1..(oi - 1) :
              IsOutputEntry(outputs[k]) => Undefined(outputs[k]) = {}
        /\ (pc = "raised" /\ at = "format" /\ Undefined(outputs[oi]) # {}) =>
              /\ err.kind = "SyntaxError"
              /\ err.arg \in Undefined(outputs[oi])
              /\ ii = Len(inputs) + 1
              /\ Len(Completed(io)) = oi - 1

\* the duration of a wait entry, with the store as it is
Duration(command) == evaluate_expression(variables, Inner(command))

RECURSIVE Substituted(_, _)
Substituted(store, text) ==
    LET a    == Index(text, S_open)
        rest == SubSeq(text, a + 3, Len(text))
        b    == Index(rest, S_shut)
        name == SubSeq(rest, 1, b)
    IN  IF a < 0 \/ b < 0 \/ name \notin DOMAIN store THEN text
        ELSE SubSeq(text, 1, a) \o PyStr(store[name])
             \o Substituted(store, SubSeq(rest, b + 3, Len(rest)))

\* C10: each placeholder /{name}/ of an output entry is replaced by the
\* string of the value name has in the store at output time, after the whole
\* parse pass and all input resolution: an entry whose placeholders all have
\* a value then does not fail, and what it prints is its template with those
\* values in place.
C10_ValueAtOutputTime ==
    op = "execute" =>
        /\ (pc = "raised" /\ at = "format") => Undefined(outputs[oi]) # {}
        /\ \A k \in 1..(oi - 1) :
              IsOutputEntry(outputs[k]) =>
                  /\ k <= Len(Completed(io))
                  /\ Completed(io)[k] =
                        Ev("print", Substituted(variables, Inner(outputs[k])))

\* the fields when the parse loop has dispatched the first k lines of the program
Before(k) == Dispatched(entry, SubSeq(lines, 1, k))

\* C11: `not hold` is an involution on the hold flag: dispatched once it
\* yields the negation of hold and changes nothing else (the variable store,
\* the queues and running stay), and dispatched twice in succession it
\* leaves every field, hold included, as it was.
C11_NotHoldInvolution ==
    (Dispatching /\ Last(lines) = S_not_hold) =>
        /\ Self = [Before(li - 2) EXCEPT !.hold = ~@]
        /\ (li > 2 /\ Strip(lines[li - 2]) = S_not_hold) => Self = Before(li - 3)

\* C11's case: `not hold` has been dispatched twice in succession on an
\* instance whose hold flag was set
C11_Witness ==
    /\ op = "execute"
    /\ pc = "parse"
    /\ lines = <<LnNotHold, LnNotHold>>
    /\ li = 3
    /\ entry.hold
    /\ hold

\* C12: template substitution terminates for every template and every
\* variable store: format_string, once called, returns its string or raises
\* SyntaxError after finitely many passes of its loop.
C12_FormatTerminates == (pc = "format") ~> (pc # "format")

\* the place of the first /{ of the template (from 0), or -1
OpenAt(text) == Index(text, S_open)

\* the template after its first /{
AfterOpen(text) == SubSeq(text, OpenAt(text) + 3, Len(text))

\* the template has a /{ and, after it, a }/
HasPlaceholder(text) == OpenAt(text) >= 0 /\ Index(AfterOpen(text), S_shut) >= 0

\* the trimmed text between the first /{ and the first }/ after it
NameAfterOpen(text) ==
    Strip(SubSeq(AfterOpen(text), 1, Index(AfterOpen(text), S_shut)))

\* the template with the text from that /{ to that }/ replaced by new
ReplacedAfterOpen(text, new) ==
    SubSeq(text, 1, OpenAt(text)) \o new
    \o SubSeq(AfterOpen(text), Index(AfterOpen(text), S_shut) + 3, Len(AfterOpen(text)))

\* C13: each substitution step of format_string takes as the variable name
\* the trimmed text between the first /{ of the template and the first }/
\* after that /{, and replaces exactly that occurrence with the string of
\* the variable's value (an undefined name is the SyntaxError); a }/ that
\* stands before the first /{ is ignored.
C13_FirstShutAfterOpen ==
    (op = "execute" /\ pc = "format" /\ HasPlaceholder(template)) =>
        /\ format_more(template)
        /\ LET r    == format_step(Self, template)
               name == NameAfterOpen(template)
           IN  IF name \in DOMAIN variables
               THEN /\ r.err = NoError
                    /\ r.template = ReplacedAfterOpen(template, PyStr(variables[name]))
               ELSE /\ r.err.kind = "SyntaxError"
                    /\ r.err.arg = name

\* C13 on the templates in which no }/ stands before the first /{ and the
\* name is written without blanks inside the delimiters
C13_PlainPlaceholder ==
    (/\ op = "execute" /\ pc = "format" /\ HasPlaceholder(template)
     /\ Index(template, S_shut) > OpenAt(template)
     /\ SubSeq(AfterOpen(template), 1, Index(AfterOpen(template), S_shut))
            = NameAfterOpen(template))
    => C13_FirstShutAfterOpen

\* the errors queue_input raises
InputErrors == {"Invalid variable name", "Invalid input command", "Invalid input syntax"}

\* C14: classification is first match wins: a line that is no comment,
\* contains = and input( and ends with ) is dispatched as an input request,
\* also when it starts with output(, wait( or loop if( or looks like an
\* assignment.  Dispatching it either queues its request and changes nothing
\* else, or fails with an error of queue_input and changes nothing: it never
\* appends to the output queue, never changes hold and never assigns a
\* variable during the parse pass.
C14_InputRequestFirst ==
    op = "execute" =>
        /\ (Dispatching /\ IsRequestLine(Last(lines))) =>
              Self = [Before(li - 2) EXCEPT !.inputs = Append(@, RequestOf(Last(lines)))]
        /\ (pc = "raised" /\ at = "parse" /\ IsRequestLine(Strip(lines[li]))) =>
              /\ Self = Before(li - 1)
              /\ err.kind = "SyntaxError"
              /\ err.msg \in InputErrors

\* C14's case: a line that starts with loop if( and is an input request has
\* been dispatched, with x bound to the string true, and hold is still false
C14_Witness ==
    /\ op = "execute"
    /\ pc = "raised"
    /\ at = "parse"
    /\ Strip(lines[li]) = LnLoopInput
    /\ <<"x">> \in DOMAIN variables
    /\ variables[<<"x">>] = StrVal(S_true)
    /\ ~hold

\* the first line from the k-th on whose dispatch raises when the parse loop
\* runs over the program ls from the fields st, or 0 if none raises
RECURSIVE FirstRaise(_, _, _)
FirstRaise(st, ls, k) ==
    IF k > Len(ls) \/ loop_breaks(st) THEN 0
    ELSE LET r == parse_command(st, Strip(ls[k]))
         IN  IF r.err # NoError THEN k ELSE FirstRaise(r.st, ls, k + 1)

\* C15: an error raised while line k is dispatched in the parse pass aborts
\* execute at once: no line after k is dispatched, no input request is
\* prompted or read, no queued output or wait entry is executed, and the
\* error is the one the caller gets.
C15_ParseErrorAborts ==
    (op = "execute" /\ FirstRaise(entry, lines, 1) > 0) =>
        LET k == FirstRaise(entry, lines, 1)
        IN  /\ li <= k
            /\ pc \in {"parse", "raised"}
            /\ pc = "raised" =>
                  /\ at = "parse" /\ li = k
                  /\ err = parse_command(Before(k - 1), Strip(lines[k])).err
                  /\ Self = Before(k - 1)
            /\ ii = 1 /\ oi = 1
            /\ Events(io, "prompt") = <<>> /\ Events(io, "read") = <<>>
            /\ Executed(io) = <<>>

\* C15's case: the second line raises with an input request queued by the
\* first and an output line after it
C15_Witness ==
    /\ op = "execute"
    /\ lines = <<LnInput, LnUnknown, LnOutput>>
    /\ pc = "raised"
    /\ at = "parse"
    /\ li = 2
    /\ inputs # <<>>

\* the fields with the hold flag reversed
Flip(st) == [st EXCEPT !.hold = ~@]

\* the fields but the hold flag
ButHold(st) == [variables |-> st.variables, outputs |-> st.outputs,
                inputs |-> st.inputs, code_running |-> st.code_running]

\* two results of a handler that differ in the hold flag at most
SameButHold(a, b) == ButHold(a.st) = ButHold(b.st) /\ a.err = b.err /\ a.ev = b.ev

\* the fields the run of the same program from the other value of hold has
\* after the lines this run has dispatched
Other == Dispatched(Flip(entry), SubSeq(lines, 1, li - 1))

\* C16: the hold flag has no effect on dispatch.  The run of the same program
\* with the same answers from fields that differ in hold alone raises at the
\* same line, or at none, with the same error, and has after every line the
\* same variable store, queues and running flag; and from fields that differ
\* in hold alone each later step of execute (a request resolved, a wait, a
\* pass of format_string) prints the same, raises the same and leaves the
\* same store: so the prompts, the executed outputs and waits, the final
\* store, the final running flag and the error are the same in both runs.
C16_HoldHasNoEffect ==
    op = "execute" =>
        /\ FirstRaise(entry, lines, 1) = FirstRaise(Flip(entry), lines, 1)
        /\ (pc = "parse" \/ at = "parse") => ButHold(Self) = ButHold(Other)
        /\ (pc = "raised" /\ at = "parse") =>
              err = parse_command(Other, Strip(lines[li])).err
        /\ (pc = "resolve" /\ ii <= Len(inputs)) =>
              \A answer \in Answers :
                  SameButHold(resolve_input(Self, inputs[ii], answer),
                              resolve_input(Flip(Self), inputs[ii], answer))
        /\ (pc = "outputs" /\ oi <= Len(outputs) /\ IsWaitEntry(outputs[oi])) =>
              SameButHold(handle_wait(Self, Inner(outputs[oi])),
                          handle_wait(Flip(Self), Inner(outputs[oi])))
        /\ (pc = "format" /\ format_more(template)) =>
              format_step(Self, template) = format_step(Flip(Self), template)

\* C16's case: a program with an input request and an output line has run to
\* its end on an instance whose hold flag was set when the call began
C16_Witness ==
    /\ op = "execute"
    /\ entry.hold
    /\ lines = <<LnInput, LnOutput>>
    /\ pc = "returned"
    /\ Executed(io) # <<>>

\* the names the right-hand side of an assignment command refers to
Refs(command) ==
    LET toks == Tokenize(Strip(SplitEq(command)[2]))
    IN  {toks[i].s : i \in {j \in 1..Len(toks) : toks[j].k = "name"}}

\* the parse loop is about to dispatch the line it is at
AtLine == op = "execute" /\ pc = "parse" /\ li <= Len(lines) /\ ~loop_breaks(Self)

\* the dispatch of the line fails with SyntaxError in the parse pass, before
\* any prompt is shown
FailsBeforePrompt ==
    /\ pc' = "raised" /\ at' = "parse"
    /\ err'.kind = "SyntaxError"
    /\ Events(io', "prompt") = <<>>

\* at output time a variable that is both assigned and bound by an input
\* request has the answer read for the last request that names it
AnswerWins ==
    (op = "execute" /\ InOutputs) =>
        \A i \in 1..Len(inputs) :
            (/\ inputs[i].named /\ inputs[i].var \in assigned
             /\ \A j \in (i + 1)..Len(inputs) : inputs[j].var # inputs[i].var)
            => variables[inputs[i].var] = Read(Events(io, "read")[i].s)

\* C17 (as amended): input resolution runs only after the whole parse pass,
\* so an assignment whose right-hand side refers to a variable that has no
\* value in the store when the line is dispatched (as has, in the first
\* execute on a new instance, a variable bound only by an input request,
\* even one on an earlier line) fails with SyntaxError during the parse
\* pass, before any prompt is shown; and a variable that is both assigned
\* and bound by an input request has at output time the input answer,
\* whichever line comes first in the source.
C17_UnresolvedAtParse ==
    /\ []AnswerWins
    /\ [][(/\ AtLine /\ IsAssignment(Strip(lines[li]))
           /\ \E n \in Refs(Strip(lines[li])) : n \notin DOMAIN variables)
          => FailsBeforePrompt]_vars

\* C17's case: the first line requests x by input, the second assigns y = x
\* and has failed, nothing prompted
C17_Witness ==
    /\ op = "execute"
    /\ lines = <<LnInput, LnCopy>>
    /\ pc = "raised"
    /\ at = "parse"
    /\ li = 2
    /\ inputs # <<>>
    /\ io = <<>>

\* an earlier line of the program requests the name by input
RequestedAbove(name) ==
    \E j \in 1..(li - 1) :
        IsRequestLine(Strip(lines[j])) /\ RequestOf(Strip(lines[j])).var = name

\* C17 as stated: the assignment fails whenever the variable it refers to is
\* bound only by an input request: an earlier line of the program requests
\* it and no assignment has bound it.
C17_Original ==
    /\ []AnswerWins
    /\ [][(/\ AtLine /\ IsAssignment(Strip(lines[li]))
           /\ \E n \in Refs(Strip(lines[li])) :
                  RequestedAbove(n) /\ n \notin assigned)
          => FailsBeforePrompt]_vars

\* C18: in every state reached through execute, every entry of the output
\* queue starts with output( or wait( and ends with ), and every entry of
\* the input queue carries a valid identifier as its variable name; so the
\* output phase never raises "Unknown or unsupported command during
\* execution".
C18_QueuesWellFormed ==
    /\ \A k \in 1..Len(outputs) : IsOutputEntry(outputs[k]) \/ IsWaitEntry(outputs[k])
    /\ \A i \in 1..Len(inputs) :
          inputs[i].named /\ is_valid_variable_name(inputs[i].var)
    /\ err.msg # "Unknown or unsupported command during execution"

\* C18's case: the parse pass has queued an input request, an output entry
\* and a wait entry, and the output phase has executed the first entry
C18_Witness ==
    /\ op = "execute"
    /\ lines = <<LnInput, LnOutput, LnWait>>
    /\ pc = "outputs"
    /\ oi = 2
    /\ IsOutputEntry(outputs[1])
    /\ IsWaitEntry(outputs[2])
    /\ inputs # <<>>

\* C19: a failed assignment leaves the interpreter as it was: when
\* assign_variable raises (an invalid name, an undefined variable, an
\* unsupported or malformed expression, a division by zero, operands of
\* types that do not go together) the variable store, both queues, running
\* and hold are as before the command, and the error raised while running
\* is true is a SyntaxError.
C19_FailedAssignmentChangesNothing ==
    /\ (op = "parse_command" /\ pc = "raised") =>
          /\ Self = entry
          /\ entry.code_running => err.kind = "SyntaxError"
    /\ (op = "execute" /\ pc = "raised" /\ at = "parse"
        /\ IsAssignment(Strip(lines[li]))) =>
          /\ Self = Before(li - 1)
          /\ err.kind = "SyntaxError"

\* C19's case: a division by zero is assigned on a running instance whose
\* store is not empty, and has failed
C19_Witness ==
    /\ op = "parse_command"
    /\ lines = <<CmdDivZero>>
    /\ pc = "raised"
    /\ entry.code_running
    /\ DOMAIN entry.variables # {}

====
